---- MODULE Spec2Model ----
(***************************************************************************)
(* Model of the rock_paper_scissors pallet                                 *)
(* (src/pallets/rock_paper_scissors/src/lib.rs): the commit-reveal game    *)
(* store, its three dispatchables create_game, play_game and               *)
(* reveal_winner, and the pure helpers they call.                          *)
(*                                                                         *)
(* Dispatchables are applied one at a time (the runtime executes           *)
(* extrinsics sequentially), so each is one atomic action.  Callers are    *)
(* signed origins: ensure_signed always yields the account.                *)
(***************************************************************************)
EXTENDS Integers, Sequences, FiniteSets, TLC

(* ------------------------------ bounds -------------------------------- *)

\* Longest event log explored: calls are applied while fewer events than
\* this have been deposited.  One game needs five events for create_game, two
\* play_game and two reveal_winner calls.
MaxEvents == 5

\* The specification of several games, SpecGames: the number of games created
\* and the longest event log explored.  Four events let a game be created
\* next to one that already holds two players.
MaxGames == 2

MaxGamesEvents == 4

(* ------------------------- values of the tests ------------------------ *)

\* tests.rs: the two secrets and the game id the test suite plays with.
A_SECRET == 1

ANOTHER_SECRET == 2

GAME_ID == 1

(* ------------------------------ inputs -------------------------------- *)

\* tests.rs ALICE, BOB, DAVE: opaque, comparable account ids.
Players == {"Alice", "Bob", "Dave"}

Secrets == {A_SECRET, ANOTHER_SECRET}

GameMovement == {"Rock", "Paper", "Scissors"}

GameResult == {"NotPlayed", "Win", "Lose", "Draw"}

(* --------------------------- Option<T> -------------------------------- *)

None == <<>>

Some(x) == <<x>>

is_none(o) == o = <<>>

unwrap(o) == o[1]

(* ----------------------- commitment codec ----------------------------- *)

\* GameMovement::to_bytes: one byte, 1 / 2 / 3.
to_bytes(movement) ==
    CASE movement = "Rock" -> <<1>>
      [] movement = "Paper" -> <<2>>
      [] movement = "Scissors" -> <<3>>

\* u64::to_ne_bytes on a little-endian target (wasm32, x86_64): the n least
\* significant bytes of v, least significant first.
RECURSIVE ne_bytes(_, _)
ne_bytes(v, n) ==
    IF n = 0 THEN <<>> ELSE <<v % 256>> \o ne_bytes(v \div 256, n - 1)

to_ne_bytes(secret) == ne_bytes(secret, 8)

\* sp_io::hashing::twox_64 is a library hash whose 64-bit arithmetic is out
\* of reach here; it is modelled as a digest determined by, and determining,
\* the hashed bytes (no collisions among the inputs explored).
twox_64(bytes) == [twox_64 |-> bytes]

\* SecretGameMovement::new
SecretGameMovement_new(movement, secret) ==
    twox_64(to_bytes(movement) \o to_ne_bytes(secret))

\* is_equal with the recomputation left out: any revealed pair is trusted.
is_equal_trusting(self, movement, secret) == TRUE

\* is_equal hashing the secret's bytes before the move's byte.
is_equal_secret_first(self, movement, secret) ==
    twox_64(to_ne_bytes(secret) \o to_bytes(movement)) = self

\* SecretGameMovement::is_equal
is_equal(self, movement, secret) ==
    SecretGameMovement_new(movement, secret) = self

(* ----------------------------- GameState ------------------------------ *)

PlayerMovement(player, movement) == [player |-> player, movement |-> movement]

\* GameState::default
GameState_default ==
    [player1 |-> None, player2 |-> None, game_result |-> "NotPlayed", winner |-> None]

\* has_player looking at slot 2 only.
has_player_slot2_only(self, player) ==
    IF ~is_none(self.player2) /\ unwrap(self.player2).player = player THEN TRUE ELSE FALSE

\* has_player without the comparison of accounts: true once a slot is filled.
has_player_any_account(self, player) ==
    ~is_none(self.player1) \/ ~is_none(self.player2)

\* has_player that never finds the account.
has_player_never(self, player) == FALSE

\* GameState::has_player
has_player(self, player) ==
    LET found1 == IF ~is_none(self.player1) /\ unwrap(self.player1).player = player
                  THEN TRUE ELSE FALSE
        found2 == IF ~is_none(self.player2) /\ unwrap(self.player2).player = player
                  THEN TRUE ELSE found1
    IN  found2

\* GameState::has_free_slots
has_free_slots(self) == is_none(self.player1) \/ is_none(self.player2)

\* add_player trying slot 2 before slot 1.
add_player_slot2_first(self, player, movement, secret) ==
    LET player_movement ==
            Some(PlayerMovement(player, SecretGameMovement_new(movement, secret)))
    IN  IF is_none(self.player2) THEN [self EXCEPT !.player2 = player_movement]
        ELSE IF is_none(self.player1) THEN [self EXCEPT !.player1 = player_movement]
        ELSE self

\* add_player writing slot 1 again when it fills slot 2.
add_player_rewrites_slot1(self, player, movement, secret) ==
    LET player_movement ==
            Some(PlayerMovement(player, SecretGameMovement_new(movement, secret)))
    IN  IF is_none(self.player1) THEN [self EXCEPT !.player1 = player_movement]
        ELSE IF is_none(self.player2)
        THEN [self EXCEPT !.player1 = player_movement, !.player2 = player_movement]
        ELSE self

\* GameState::add_player: the game state after the call (the bool it returns
\* is ignored by its only caller).
add_player(self, player, movement, secret) ==
    LET player_movement ==
            Some(PlayerMovement(player, SecretGameMovement_new(movement, secret)))
    IN  IF is_none(self.player1) THEN [self EXCEPT !.player1 = player_movement]
        ELSE IF is_none(self.player2) THEN [self EXCEPT !.player2 = player_movement]
        ELSE self

\* play with Paper losing to Rock.
play_paper_loses_to_rock(self, other) ==
    CASE self = "Rock" ->
            (CASE other = "Rock" -> "Draw"
               [] other = "Paper" -> "Lose"
               [] other = "Scissors" -> "Win")
      [] self = "Paper" ->
            (CASE other = "Rock" -> "Lose"
               [] other = "Paper" -> "Draw"
               [] other = "Scissors" -> "Lose")
      [] self = "Scissors" ->
            (CASE other = "Rock" -> "Lose"
               [] other = "Paper" -> "Win"
               [] other = "Scissors" -> "Draw")

\* GameMovement::play
play(self, other) ==
    CASE self = "Rock" ->
            (CASE other = "Rock" -> "Draw"
               [] other = "Paper" -> "Lose"
               [] other = "Scissors" -> "Win")
      [] self = "Paper" ->
            (CASE other = "Rock" -> "Win"
               [] other = "Paper" -> "Draw"
               [] other = "Scissors" -> "Lose")
      [] self = "Scissors" ->
            (CASE other = "Rock" -> "Lose"
               [] other = "Paper" -> "Win"
               [] other = "Scissors" -> "Draw")

(* ------------------------------- state -------------------------------- *)

VARIABLES
    NextGameId,   \* StorageValue NextGameId (ValueQuery: 0 when unset)
    Games,        \* StorageMap Games: game id -> GameState, for the ids inserted
    events,       \* the events deposited so far, oldest first
    last          \* the dispatchable applied last and what it returned

vars == <<NextGameId, Games, events, last>>

\* Game ids a caller may address: every id handed out so far, and the id the
\* next create_game will hand out, under which nothing is stored yet.
GameIds == 1..(NextGameId + 1)

\* Events
GameCreated(game_id) == [event |-> "GameCreated", game_id |-> game_id]

PlayerMadeMovement(account_id) == [event |-> "PlayerMadeMovement", who |-> account_id]

GameFinished(game_id, game_result, winner) ==
    [event |-> "GameFinished", game_id |-> game_id,
     game_result |-> game_result, winner |-> winner]

\* Self::deposit_event
deposit_event(event) == events' = Append(events, event)

\* Games::<T>::insert: writes the value under the key, replacing any old one.
Games_insert(game_id, game_state) ==
    Games' = [id \in (DOMAIN Games) \cup {game_id} |->
                 IF id = game_id THEN game_state ELSE Games[id]]

\* Games::<T>::get as a ValueQuery map would answer: the default game for an
\* id that was never inserted.
Games_get_value_query(game_id) ==
    IF game_id \in DOMAIN Games THEN Some(Games[game_id]) ELSE Some(GameState_default)

\* Games::<T>::get
Games_get(game_id) == IF game_id \in DOMAIN Games THEN Some(Games[game_id]) ELSE None

\* The pallet's Error variants the dispatchables return.
Errors == {"GameNotFound", "GameIsFull", "PlayerAlreadyInGame", "PlayerNotInGame", "InvalidHash"}

\* The call applied last: the dispatchable, its origin and arguments, and
\* what it returned: "Ok", one of Errors, or "Panic" (the call aborted in a
\* panic; nothing it did is kept).  Fields a dispatchable does not have hold
\* "-" or 0.
Call(op, who, game_id, movement1, secret1, player2, movement2, secret2, result) ==
    [op |-> op, who |-> who, game_id |-> game_id,
     movement1 |-> movement1, secret1 |-> secret1,
     player2 |-> player2, movement2 |-> movement2, secret2 |-> secret2,
     result |-> result]

\* `?` and ensure! returning Err, and a panic: the call ends before anything
\* has been written or deposited.
Fail(call) ==
    /\ last' = call
    /\ UNCHANGED <<NextGameId, Games, events>>

Init ==
    /\ NextGameId = 0
    /\ Games = <<>>
    /\ events = <<>>
    /\ last = Call("genesis", "-", 0, "-", 0, "-", "-", 0, "Ok")

(* ---------------------------- dispatchables --------------------------- *)

\* create_game that computes the next id and does not store the counter.
create_game_counter_not_stored(origin) ==
    LET game_id == NextGameId + 1
    IN  /\ UNCHANGED NextGameId
        /\ Games_insert(game_id, GameState_default)
        /\ deposit_event(GameCreated(game_id))
        /\ last' = Call("create_game", origin, 0, "-", 0, "-", "-", 0, "Ok")

\* <NextGameId<T>>::mutate(|x| *x += 1), NextGameId::<T>::get(), insert and
\* deposit.  The counter is a u64; the ids handed out here stay far below
\* u64::MAX, where the increment would wrap or panic.
create_game(origin) ==
    LET game_id == NextGameId + 1
    IN  /\ NextGameId' = game_id
        /\ Games_insert(game_id, GameState_default)
        /\ deposit_event(GameCreated(game_id))
        /\ last' = Call("create_game", origin, 0, "-", 0, "-", "-", 0, "Ok")

\* play_game with its two ensure! lines in the other order.
play_game_player_check_first(origin, game_id, movement, secret) ==
    LET account_id == origin
        ret(result) == Call("play_game", origin, game_id, movement, secret, "-", "-", 0, result)
    IN  IF is_none(Games_get(game_id)) THEN Fail(ret("GameNotFound"))
        ELSE LET game_state == unwrap(Games_get(game_id))
             IN  IF has_player(game_state, account_id)
                 THEN Fail(ret("PlayerAlreadyInGame"))
                 ELSE IF ~has_free_slots(game_state) THEN Fail(ret("GameIsFull"))
                 ELSE /\ Games_insert(game_id,
                             add_player(game_state, account_id, movement, secret))
                      /\ deposit_event(PlayerMadeMovement(account_id))
                      /\ last' = ret("Ok")
                      /\ UNCHANGED NextGameId

\* play_game that adds the player and writes the game before it checks that
\* the player is not in it yet.
play_game_write_first(origin, game_id, movement, secret) ==
    LET account_id == origin
        ret(result) == Call("play_game", origin, game_id, movement, secret, "-", "-", 0, result)
    IN  IF is_none(Games_get(game_id)) THEN Fail(ret("GameNotFound"))
        ELSE LET game_state == unwrap(Games_get(game_id))
             IN  IF ~has_free_slots(game_state) THEN Fail(ret("GameIsFull"))
                 ELSE /\ Games_insert(game_id,
                             add_player(game_state, account_id, movement, secret))
                      /\ UNCHANGED NextGameId
                      /\ IF has_player(game_state, account_id)
                         THEN /\ last' = ret("PlayerAlreadyInGame")
                              /\ UNCHANGED events
                         ELSE /\ deposit_event(PlayerMadeMovement(account_id))
                              /\ last' = ret("Ok")

play_game(origin, game_id, movement, secret) ==
    LET account_id == origin
        ret(result) == Call("play_game", origin, game_id, movement, secret, "-", "-", 0, result)
    IN  IF is_none(Games_get(game_id)) THEN Fail(ret("GameNotFound"))
        ELSE LET game_state == unwrap(Games_get(game_id))
             IN  IF ~has_free_slots(game_state) THEN Fail(ret("GameIsFull"))
                 ELSE IF has_player(game_state, account_id)
                 THEN Fail(ret("PlayerAlreadyInGame"))
                 ELSE /\ Games_insert(game_id,
                             add_player(game_state, account_id, movement, secret))
                      /\ deposit_event(PlayerMadeMovement(account_id))
                      /\ last' = ret("Ok")
                      /\ UNCHANGED NextGameId

\* The short circuit left out: every reveal resolves the game anew.
already_finished_never(game_state) == FALSE

\* The short circuit taken for a draw only.
already_finished_draw_only(game_state) == game_state.game_result = "Draw"

\* The already-resolved test that guards the short circuit of reveal_winner.
already_finished(game_state) == game_state.game_result # "NotPlayed"

\* The match with the two winners exchanged.
reveal_match_winner_swapped(game_state, game_result, player1, player2) ==
    CASE game_result = "Win" -> Some(player2)
      [] game_result = "Lose" -> Some(player1)
      [] OTHER -> game_state.winner

\* The match with a Draw arm that names the caller the winner.
reveal_match_winner_on_draw(game_state, game_result, player1, player2) ==
    CASE game_result = "Win" -> Some(player1)
      [] game_result = "Lose" -> Some(player2)
      [] OTHER -> Some(player1)

\* The match on game_result in reveal_winner: the winner field after it.
reveal_match_winner(game_state, game_result, player1, player2) ==
    CASE game_result = "Win" -> Some(player1)
      [] game_result = "Lose" -> Some(player2)
      [] OTHER -> game_state.winner

\* reveal_winner that reads the slots with `if let Some(..)`: the hash check
\* of an empty slot is skipped instead of panicking.
reveal_winner_skip_empty(origin, game_id, player1_movement, player1_secret, player2, player2_movement, player2_secret) ==
    LET player1 == origin
        ret(result) == Call("reveal_winner", origin, game_id, player1_movement,
                            player1_secret, player2, player2_movement, player2_secret,
                            result)
    IN  IF is_none(Games_get(game_id)) THEN Fail(ret("GameNotFound"))
        ELSE LET game_state == unwrap(Games_get(game_id))
             IN  IF ~has_player(game_state, player1) THEN Fail(ret("PlayerNotInGame"))
                 ELSE IF ~has_player(game_state, player2) THEN Fail(ret("PlayerNotInGame"))
                 ELSE IF /\ ~is_none(game_state.player1)
                         /\ ~is_equal(unwrap(game_state.player1).movement,
                                      player1_movement, player1_secret)
                 THEN Fail(ret("InvalidHash"))
                 ELSE IF /\ ~is_none(game_state.player2)
                         /\ ~is_equal(unwrap(game_state.player2).movement,
                                      player2_movement, player2_secret)
                 THEN Fail(ret("InvalidHash"))
                 ELSE IF already_finished(game_state)
                 THEN /\ deposit_event(GameFinished(game_id, game_state.game_result,
                                                    game_state.winner))
                      /\ last' = ret("Ok")
                      /\ UNCHANGED <<NextGameId, Games>>
                 ELSE LET game_result == play(player1_movement, player2_movement)
                          winner == reveal_match_winner(game_state, game_result,
                                                        player1, player2)
                      IN  /\ Games_insert(game_id,
                                 [game_state EXCEPT !.winner = winner,
                                                    !.game_result = game_result])
                          /\ deposit_event(GameFinished(game_id, game_result, winner))
                          /\ last' = ret("Ok")
                          /\ UNCHANGED NextGameId

reveal_winner(origin, game_id, player1_movement, player1_secret, player2, player2_movement, player2_secret) ==
    LET player1 == origin
        ret(result) == Call("reveal_winner", origin, game_id, player1_movement,
                            player1_secret, player2, player2_movement, player2_secret,
                            result)
    IN  IF is_none(Games_get(game_id)) THEN Fail(ret("GameNotFound"))
        ELSE LET game_state == unwrap(Games_get(game_id))
             IN  IF ~has_player(game_state, player1) THEN Fail(ret("PlayerNotInGame"))
                 ELSE IF ~has_player(game_state, player2) THEN Fail(ret("PlayerNotInGame"))
                 \* Option::unwrap of an empty slot panics
                 ELSE IF is_none(game_state.player1) THEN Fail(ret("Panic"))
                 ELSE IF is_none(game_state.player2) THEN Fail(ret("Panic"))
                 ELSE LET p1 == unwrap(game_state.player1)
                          p2 == unwrap(game_state.player2)
                      IN  IF ~is_equal(p1.movement, player1_movement, player1_secret)
                          THEN Fail(ret("InvalidHash"))
                          ELSE IF ~is_equal(p2.movement, player2_movement, player2_secret)
                          THEN Fail(ret("InvalidHash"))
                          ELSE IF already_finished(game_state)
                          THEN /\ deposit_event(GameFinished(game_id, game_state.game_result,
                                                             game_state.winner))
                               /\ last' = ret("Ok")
                               /\ UNCHANGED <<NextGameId, Games>>
                          ELSE LET game_result == play(player1_movement, player2_movement)
                                   winner == reveal_match_winner(game_state, game_result,
                                                                 player1, player2)
                               IN  /\ Games_insert(game_id,
                                          [game_state EXCEPT !.winner = winner,
                                                             !.game_result = game_result])
                                   /\ deposit_event(GameFinished(game_id, game_result, winner))
                                   /\ last' = ret("Ok")
                                   /\ UNCHANGED NextGameId

(* ---------------------------- specification --------------------------- *)

\* A call that returned an error or panicked has left NextGameId, Games and
\* events as it found them, so the calls that can follow it are the calls
\* that could have been made in its place.  The model makes those from the
\* state the failed call started in and keeps the failed call as a leaf: the
\* reachable stores are the same, and the recorded failed calls do not
\* multiply.  The log explored is bounded by MaxEvents.
Returned == last.result = "Ok" /\ Len(events) < MaxEvents

\* The model follows the test suite in playing one game, GAME_ID: create_game
\* is applied until that id has been handed out.
CreateGame ==
    /\ Returned
    /\ NextGameId < GAME_ID
    /\ \E origin \in Players : create_game(origin)

PlayGame ==
    /\ Returned
    /\ \E origin \in Players, game_id \in GameIds,
          movement \in GameMovement, secret \in Secrets :
           play_game(origin, game_id, movement, secret)

RevealWinner ==
    /\ Returned
    /\ \E origin \in Players, game_id \in GameIds,
          player1_movement \in GameMovement, player1_secret \in Secrets,
          player2 \in Players,
          player2_movement \in GameMovement, player2_secret \in Secrets :
           reveal_winner(origin, game_id, player1_movement, player1_secret,
                         player2, player2_movement, player2_secret)

Next ==
    \/ CreateGame
    \/ PlayGame
    \/ RevealWinner

Spec == Init /\ [][Next]_vars

(* ----------------------- several games, shallow ----------------------- *)

\* The same three dispatchables with up to MaxGames games and a log of up to
\* MaxGamesEvents events: games are created before, between and after joins.
ReturnedGames == last.result = "Ok" /\ Len(events) < MaxGamesEvents

CreateGames ==
    /\ ReturnedGames
    /\ NextGameId < MaxGames
    /\ \E origin \in Players : create_game(origin)

PlayGames ==
    /\ ReturnedGames
    /\ \E origin \in Players, game_id \in GameIds,
          movement \in GameMovement, secret \in Secrets :
           play_game(origin, game_id, movement, secret)

RevealGames ==
    /\ ReturnedGames
    /\ \E origin \in Players, game_id \in GameIds,
          player1_movement \in GameMovement, player1_secret \in Secrets,
          player2 \in Players,
          player2_movement \in GameMovement, player2_secret \in Secrets :
           reveal_winner(origin, game_id, player1_movement, player1_secret,
                         player2, player2_movement, player2_secret)

NextGames ==
    \/ CreateGames
    \/ PlayGames
    \/ RevealGames

SpecGames == Init /\ [][NextGames]_vars

(* ------------------------------- claims ------------------------------- *)

\* The account holds a slot of the game, read off the two slots directly.
Occupies(game_state, player) ==
    \E slot \in {game_state.player1, game_state.player2} :
        slot # None /\ slot[1].player = player

BothFilled(game_state) == game_state.player1 # None /\ game_state.player2 # None

Resolved(game_state) == game_state.game_result # "NotPlayed"

\* The revealed pair is not the pair the slot's commitment was made from.
Mismatch(slot, movement, secret) ==
    slot[1].movement # SecretGameMovement_new(movement, secret)

\* The GameFinished events of a game in a log, oldest first.
FinishedEvents(log, game_id) ==
    SelectSeq(log, LAMBDA e : e.event = "GameFinished" /\ e.game_id = game_id)

\* The step is a call of the dispatchable, addressed to a stored game.
CallOn(op) == last'.op = op /\ last'.game_id \in DOMAIN Games

\* C1: a reveal_winner call that returns Ok on a game whose stored outcome is
\* not NotPlayed leaves the game record as it was and deposits GameFinished
\* with the stored (game_result, winner), which is the pair of the game's
\* first GameFinished event.
C1_RevealIdempotent ==
    [][ (CallOn("reveal_winner") /\ last'.result = "Ok"
            /\ Resolved(Games[last'.game_id]))
        => LET game_id == last'.game_id
               stored == Games[game_id]
               again == GameFinished(game_id, stored.game_result, stored.winner)
           IN  /\ Games' = Games
               /\ events' = Append(events, again)
               /\ FinishedEvents(events, game_id) # <<>>
               /\ FinishedEvents(events, game_id)[1] = again ]_vars

\* Witness of C1: a second successful reveal of a game has just been applied.
C1_Witness ==
    /\ last.op = "reveal_winner" /\ last.result = "Ok"
    /\ Len(FinishedEvents(events, last.game_id)) >= 2

\* C2: once a game's game_result differs from NotPlayed, no call changes the
\* game's game_result or winner.
C2_ResolvedIsTerminal ==
    [][ \A game_id \in DOMAIN Games :
            Resolved(Games[game_id])
            => /\ game_id \in DOMAIN Games'
               /\ Games'[game_id].game_result = Games[game_id].game_result
               /\ Games'[game_id].winner = Games[game_id].winner ]_vars

\* Witness of C2: a play_game call has been applied to a resolved game.
C2_Witness ==
    /\ last.op = "play_game"
    /\ last.game_id \in DOMAIN Games
    /\ Resolved(Games[last.game_id])

\* C3: the first successful reveal_winner of a game stores and deposits
\* play(player1_movement, player2_movement) as the outcome, and as the winner
\* the caller for Win, the named player2 for Lose and None for Draw; Alice
\* revealing Rock against Bob's Paper gives (Lose, Some(Bob)).
C3_FirstRevealResolves ==
    [][ (CallOn("reveal_winner") /\ last'.result = "Ok"
            /\ ~Resolved(Games[last'.game_id]))
        => LET game_id == last'.game_id
               outcome == play(last'.movement1, last'.movement2)
               winner == IF outcome = "Win" THEN Some(last'.who)
                         ELSE IF outcome = "Lose" THEN Some(last'.player2)
                         ELSE None
           IN  /\ Games'[game_id].game_result = outcome
               /\ Games'[game_id].winner = winner
               /\ events' = Append(events, GameFinished(game_id, outcome, winner))
               /\ (last'.who = "Alice" /\ last'.movement1 = "Rock"
                     /\ last'.player2 = "Bob" /\ last'.movement2 = "Paper")
                  => (outcome = "Lose" /\ winner = Some("Bob")) ]_vars

\* Witness of C3: Alice committed Rock, Bob committed Paper, and Alice's
\* reveal naming Bob has just resolved the game.
C3_Witness ==
    /\ last.op = "reveal_winner" /\ last.result = "Ok"
    /\ last.who = "Alice" /\ last.movement1 = "Rock"
    /\ last.player2 = "Bob" /\ last.movement2 = "Paper"
    /\ Len(FinishedEvents(events, last.game_id)) = 1
    /\ Games[last.game_id].game_result = "Lose"
    /\ Games[last.game_id].winner = Some("Bob")

\* The case of C4: a reveal on a game with both slots filled whose first pair
\* does not hash to slot 1's commitment or whose second pair does not hash to
\* slot 2's.
C4_MismatchingReveal ==
    /\ CallOn("reveal_winner")
    /\ BothFilled(Games[last'.game_id])
    /\ \/ Mismatch(Games[last'.game_id].player1, last'.movement1, last'.secret1)
       \/ Mismatch(Games[last'.game_id].player2, last'.movement2, last'.secret2)

\* C4 as claimed: every such reveal fails with InvalidHash and the game's
\* outcome stays NotPlayed.
C4_AsClaimed ==
    [][ C4_MismatchingReveal
        => /\ last'.result = "InvalidHash"
           /\ Games'[last'.game_id].game_result = "NotPlayed" ]_vars

\* C4: such a reveal made by an account that occupies a slot and naming a
\* player2 that occupies a slot fails with InvalidHash and leaves the game
\* record as it was, so that an outcome that is NotPlayed stays NotPlayed.
C4_CommitmentGate ==
    [][ (C4_MismatchingReveal
            /\ Occupies(Games[last'.game_id], last'.who)
            /\ Occupies(Games[last'.game_id], last'.player2))
        => /\ last'.result = "InvalidHash"
           /\ Games' = Games ]_vars

\* Witness of C4: a reveal by one slot holder naming the other has failed
\* with InvalidHash on a game that is not resolved, over a wrong secret.
C4_Witness ==
    /\ last.op = "reveal_winner" /\ last.result = "InvalidHash"
    /\ last.who # last.player2
    /\ ~Resolved(Games[last.game_id])
    /\ Games[last.game_id].player1[1].movement
          = SecretGameMovement_new(last.movement1, ANOTHER_SECRET)
    /\ last.secret1 = A_SECRET

\* C5: a play_game call on a game with both slots filled fails with
\* GameIsFull, whoever calls and whatever is played, and leaves the game as
\* it was.
C5_Capacity ==
    [][ (CallOn("play_game") /\ BothFilled(Games[last'.game_id]))
        => /\ last'.result = "GameIsFull"
           /\ Games' = Games ]_vars

\* Witness of C5: one of the two players of a full game has called play_game
\* on it again.
C5_Witness ==
    /\ last.op = "play_game" /\ last.result = "GameIsFull"
    /\ Occupies(Games[last.game_id], last.who)

\* C6 as claimed: a play_game call by an account that occupies a slot of the
\* game fails with PlayerAlreadyInGame and does not change the game.
C6_AsClaimed ==
    [][ (CallOn("play_game") /\ Occupies(Games[last'.game_id], last'.who))
        => /\ last'.result = "PlayerAlreadyInGame"
           /\ Games' = Games ]_vars

\* C6: a play_game call by an account that occupies a slot of a game that
\* still has a free slot fails with PlayerAlreadyInGame and does not change
\* the game.
C6_NoSelfJoin ==
    [][ (CallOn("play_game") /\ Occupies(Games[last'.game_id], last'.who)
            /\ ~BothFilled(Games[last'.game_id]))
        => /\ last'.result = "PlayerAlreadyInGame"
           /\ Games' = Games ]_vars

\* Witness of C6: the holder of slot 1 has called play_game again while slot
\* 2 was free.
C6_Witness ==
    /\ last.op = "play_game" /\ last.result = "PlayerAlreadyInGame"
    /\ Games[last.game_id].player1 # None
    /\ Games[last.game_id].player1[1].player = last.who
    /\ Games[last.game_id].player2 = None

\* C7: a reveal_winner call on a stored game whose caller or whose named
\* player2 occupies no slot fails with PlayerNotInGame, whatever is revealed.
C7_PlayerNotInGame ==
    [][ (CallOn("reveal_winner")
            /\ \/ ~Occupies(Games[last'.game_id], last'.who)
               \/ ~Occupies(Games[last'.game_id], last'.player2))
        => last'.result = "PlayerNotInGame" ]_vars

\* Witness of C7: a slot holder of a full game has revealed the committed
\* pairs, naming an account that is not in the game.
C7_Witness ==
    /\ last.op = "reveal_winner" /\ last.result = "PlayerNotInGame"
    /\ last.game_id \in DOMAIN Games
    /\ BothFilled(Games[last.game_id])
    /\ Occupies(Games[last.game_id], last.who)
    /\ ~Occupies(Games[last.game_id], last.player2)
    /\ ~Mismatch(Games[last.game_id].player1, last.movement1, last.secret1)
    /\ ~Mismatch(Games[last.game_id].player2, last.movement2, last.secret2)

\* C8: play_game and reveal_winner addressed to an id under which no game
\* is stored fail with GameNotFound, whatever the other arguments.
C8_GameNotFound ==
    [][ (last'.op \in {"play_game", "reveal_winner"}
            /\ last'.game_id \notin DOMAIN Games)
        => last'.result = "GameNotFound" ]_vars

\* Witness of C8: a reveal addressed to an id that was never handed out,
\* made while a game is stored.
C8_Witness ==
    /\ last.op = "reveal_winner" /\ last.result = "GameNotFound"
    /\ DOMAIN Games # {}
    /\ last.game_id \notin DOMAIN Games

\* C9: a play_game or reveal_winner call that returns an error leaves every
\* game record, NextGameId and the deposited events as they were.
C9_AllOrNothing ==
    [][ (last'.op \in {"play_game", "reveal_winner"} /\ last'.result \in Errors)
        => /\ Games' = Games
           /\ NextGameId' = NextGameId
           /\ events' = events ]_vars

\* Witness of C9: a reveal of a resolved game has failed over a wrong pair.
C9_Witness ==
    /\ last.op = "reveal_winner" /\ last.result = "InvalidHash"
    /\ Resolved(Games[last.game_id])

\* C10: every reveal_winner call ends in Ok or in one of the declared
\* errors; the unwraps of slot 1 and slot 2 never meet an empty slot.
C10_RevealNeverPanics ==
    last.op = "reveal_winner" => last.result \in Errors \cup {"Ok"}

\* The filled slots of a game.
FilledSlots(game_state) ==
    {slot \in {<<1, game_state.player1>>, <<2, game_state.player2>>} : slot[2] # None}

\* C11: every stored game has at most two filled slots, and two filled slots
\* hold different accounts.
C11_TwoDistinctPlayers ==
    \A game_id \in DOMAIN Games :
        /\ Cardinality(FilledSlots(Games[game_id])) <= 2
        /\ BothFilled(Games[game_id])
           => Games[game_id].player1[1].player # Games[game_id].player2[1].player

\* Witness of C11: a game has both slots filled, and the holder of slot 1
\* has just been refused a second slot.
C11_Witness ==
    /\ last.op = "play_game" /\ last.result # "Ok"
    /\ last.game_id \in DOMAIN Games
    /\ BothFilled(Games[last.game_id])
    /\ Games[last.game_id].player1[1].player = last.who

\* C12: a stored game whose game_result is not NotPlayed has slot 1 and
\* slot 2 filled.
C12_ResolvedIsFull ==
    \A game_id \in DOMAIN Games :
        Resolved(Games[game_id]) => BothFilled(Games[game_id])

\* Witness of C12: a reveal has just resolved a game.
C12_Witness ==
    /\ last.op = "reveal_winner" /\ last.result = "Ok"
    /\ Resolved(Games[last.game_id])
    /\ BothFilled(Games[last.game_id])
    /\ Len(FinishedEvents(events, last.game_id)) = 1

\* C13: a stored game's winner is Some(player) exactly when its game_result
\* is Win or Lose; it is None for Draw and for NotPlayed.
C13_WinnerIffDecided ==
    \A game_id \in DOMAIN Games :
        (Games[game_id].winner # None) <=> (Games[game_id].game_result \in {"Win", "Lose"})

\* Witness of C13: a game has been resolved as a Draw and has no winner.
C13_Witness ==
    \E game_id \in DOMAIN Games :
        Games[game_id].game_result = "Draw" /\ Games[game_id].winner = None

\* The ids of the GameCreated events of a log.
CreatedIds(log) ==
    {log[i].game_id : i \in {k \in 1..Len(log) : log[k].event = "GameCreated"}}

\* C14: a create_game call returns Ok, deposits GameCreated with an id that
\* is greater than every id used before (1 when none was), stores the empty
\* game (no players, NotPlayed, no winner) under that id, and leaves every
\* game stored before as it was.
C14_CreateGame ==
    [][ last'.op = "create_game"
        => /\ last'.result = "Ok"
           /\ Len(events') = Len(events) + 1
           /\ SubSeq(events', 1, Len(events)) = events
           /\ events'[Len(events')].event = "GameCreated"
           /\ LET game_id == events'[Len(events')].game_id
              IN  /\ \A used \in (DOMAIN Games) \cup CreatedIds(events) : game_id > used
                  /\ (DOMAIN Games) \cup CreatedIds(events) = {} => game_id = 1
                  /\ DOMAIN Games' = (DOMAIN Games) \cup {game_id}
                  /\ game_id \notin DOMAIN Games
                  /\ Games'[game_id] = [player1 |-> <<>>, player2 |-> <<>>,
                                         game_result |-> "NotPlayed", winner |-> <<>>]
                  /\ \A id \in DOMAIN Games : Games'[id] = Games[id] ]_vars

\* Witness of C14: a second game has just been created next to a first game
\* that holds two players.
C14_Witness ==
    /\ last.op = "create_game" /\ last.result = "Ok"
    /\ DOMAIN Games = {1, 2}
    /\ BothFilled(Games[1])
    /\ Games[2].player1 = None
    /\ events[Len(events)] = [event |-> "GameCreated", game_id |-> 2]

\* C15: on a game with both slots filled and outcome NotPlayed, a reveal by
\* either slot holder that gives the caller's own committed pair first and
\* names the other slot holder with that holder's committed pair returns Ok
\* and resolves the game.
C15_EitherHolderReveals ==
    [][ (CallOn("reveal_winner")
            /\ BothFilled(Games[last'.game_id])
            /\ ~Resolved(Games[last'.game_id])
            /\ \E mine, other \in {Games[last'.game_id].player1[1],
                                   Games[last'.game_id].player2[1]} :
                  /\ mine # other
                  /\ mine.player = last'.who
                  /\ mine.movement = SecretGameMovement_new(last'.movement1, last'.secret1)
                  /\ other.player = last'.player2
                  /\ other.movement = SecretGameMovement_new(last'.movement2, last'.secret2))
        => /\ last'.result = "Ok"
           /\ Resolved(Games'[last'.game_id]) ]_vars

\* Cyclic dominance: Rock beats Scissors, Scissors beats Paper, Paper beats
\* Rock.
Beats == {<<"Rock", "Scissors">>, <<"Scissors", "Paper">>, <<"Paper", "Rock">>}

\* The outcome for the first move against the second, read off the dominance
\* relation.
Outcome(first, second) ==
    IF first = second THEN "Draw"
    ELSE IF <<first, second>> \in Beats THEN "Win"
    ELSE "Lose"

\* C16: play is defined on all nine pairs of moves and follows the cyclic
\* dominance table (Draw on equal moves, Win for Rock-Scissors,
\* Scissors-Paper and Paper-Rock, Lose otherwise), never NotPlayed: the
\* outcome a resolving reveal stores is the table's entry for its two moves.
C16_PlayTable ==
    [][ (CallOn("reveal_winner") /\ last'.result = "Ok"
            /\ ~Resolved(Games[last'.game_id]))
        => /\ Games'[last'.game_id].game_result
                  = Outcome(last'.movement1, last'.movement2)
           /\ Games'[last'.game_id].game_result \in {"Win", "Lose", "Draw"} ]_vars

C16_Witness ==
    /\ last.op = "reveal_winner" /\ last.result = "Ok"
    /\ last.movement1 = "Scissors" /\ last.movement2 = "Paper"
    /\ Games[last.game_id].game_result = "Win"
    /\ Len(FinishedEvents(events, last.game_id)) = 1

\* C17: a commitment passes is_equal for the pair it was made from: the slot
\* a join fills passes for the join's pair, and a reveal on a full game that
\* gives each slot the pair its commitment was made from is not answered
\* InvalidHash.
C17_CommitVerifyRoundTrip ==
    [][ /\ (CallOn("play_game") /\ last'.result = "Ok")
           => \E slot \in {Games'[last'.game_id].player1, Games'[last'.game_id].player2} :
                 /\ slot # None
                 /\ slot[1].player = last'.who
                 /\ is_equal(slot[1].movement, last'.movement1, last'.secret1)
        /\ (CallOn("reveal_winner")
               /\ BothFilled(Games[last'.game_id])
               /\ ~Mismatch(Games[last'.game_id].player1, last'.movement1, last'.secret1)
               /\ ~Mismatch(Games[last'.game_id].player2, last'.movement2, last'.secret2))
           => last'.result # "InvalidHash" ]_vars

C17_Witness ==
    /\ last.op = "reveal_winner" /\ last.result = "Ok"
    /\ BothFilled(Games[last.game_id])
    /\ Games[last.game_id].player1[1].movement = SecretGameMovement_new("Paper", ANOTHER_SECRET)
    /\ Games[last.game_id].player2[1].movement = SecretGameMovement_new("Scissors", A_SECRET)
    /\ last.movement1 = "Paper" /\ last.secret1 = ANOTHER_SECRET
    /\ last.movement2 = "Scissors" /\ last.secret2 = A_SECRET

\* The move a commitment was made from (commitments are injective here).
CommittedMove(commitment) ==
    CHOOSE movement \in GameMovement :
        \E secret \in Secrets : SecretGameMovement_new(movement, secret) = commitment

\* C18: the winner of a game resolved as Win or Lose is the account in the
\* slot whose committed move beats the committed move of the other slot.
C18_WinnerHoldsWinningSlot ==
    \A game_id \in DOMAIN Games :
        (Games[game_id].game_result \in {"Win", "Lose"} /\ BothFilled(Games[game_id]))
        => LET slot1 == Games[game_id].player1[1]
               slot2 == Games[game_id].player2[1]
               move1 == CommittedMove(slot1.movement)
               move2 == CommittedMove(slot2.movement)
           IN  /\ <<move1, move2>> \in Beats => Games[game_id].winner = Some(slot1.player)
               /\ <<move2, move1>> \in Beats => Games[game_id].winner = Some(slot2.player)

\* C19: the first successful play_game on a game puts the caller and the
\* commitment of its pair in slot 1 and leaves slot 2 empty, the second puts
\* them in slot 2 and leaves slot 1 as it was, and each deposits
\* PlayerMadeMovement with the caller's account.
C19_ArrivalOrder ==
    [][ (CallOn("play_game") /\ last'.result = "Ok")
        => LET game_id == last'.game_id
               joined == Some([player |-> last'.who,
                               movement |-> SecretGameMovement_new(last'.movement1,
                                                                   last'.secret1)])
           IN  /\ Games[game_id].player1 = None
                  => /\ Games'[game_id].player1 = joined
                     /\ Games'[game_id].player2 = None
               /\ Games[game_id].player1 # None
                  => /\ Games[game_id].player2 = None
                     /\ Games'[game_id].player1 = Games[game_id].player1
                     /\ Games'[game_id].player2 = joined
               /\ events' = Append(events, [event |-> "PlayerMadeMovement",
                                            who |-> last'.who]) ]_vars

C19_Witness ==
    /\ last.op = "play_game" /\ last.result = "Ok" /\ last.who = "Dave"
    /\ Games[last.game_id].player1
          = Some([player |-> "Bob", movement |-> SecretGameMovement_new("Paper", A_SECRET)])
    /\ Games[last.game_id].player2
          = Some([player |-> "Dave", movement |-> SecretGameMovement_new("Rock", ANOTHER_SECRET)])
    /\ events[Len(events)] = [event |-> "PlayerMadeMovement", who |-> "Dave"]

\* C20: a filled slot of a stored game holds the same player and commitment
\* after every step, whichever call the step is: the game stays stored and
\* no join, reveal or creation replaces the slot.
C20_FilledSlotImmutable ==
    [][ \A game_id \in DOMAIN Games :
            /\ game_id \in DOMAIN Games'
            /\ Games[game_id].player1 # None
               => Games'[game_id].player1 = Games[game_id].player1
            /\ Games[game_id].player2 # None
               => Games'[game_id].player2 = Games[game_id].player2 ]_vars

C20_Witness ==
    /\ last.op = "reveal_winner" /\ last.result = "Ok"
    /\ 1 \in DOMAIN Games
    /\ Resolved(Games[1])
    /\ Games[1].player1
          = Some([player |-> "Alice", movement |-> SecretGameMovement_new("Rock", A_SECRET)])
    /\ Games[1].player2
          = Some([player |-> "Bob", movement |-> SecretGameMovement_new("Rock", A_SECRET)])

====
